---- MODULE Spec2Model ----
(***************************************************************************)
(* A model of atlasapi/atlas.py: the generic pagination engine             *)
(* (AtlasPagination.__iter__ and its five bindings) and the resource       *)
(* operations that guard it (the list operations and the deletes).         *)
(*                                                                         *)
(* A pagination object is a record of the three fields __init__ stores.    *)
(* A generator (one call of __iter__) is a record of the generator's       *)
(* position and its locals, plus history fields (log, yielded, raised)     *)
(* that the code does not hold and that only the properties read.          *)
(***************************************************************************)
EXTENDS Integers, Sequences, FiniteSets, TLC

\* ------------------------------------------------------------- bounds
MaxPageNum == 2      \* starting page numbers are 1..MaxPageNum
MaxTotal == 3        \* a response's totalCount is 0..MaxTotal
MaxResults == 2      \* a response's results sequence has 0..MaxResults items
MaxIters == 2        \* __iter__ is called at most MaxIters times on one object
MaxPages == 5        \* pages asked of a transport whose totalCount has no bound

\* Settings.itemsPerPageMin / Settings.itemsPerPageMax (settings.py), scaled
itemsPerPageMin == 1
itemsPerPageMax == 2

Slots == {1, 2}      \* places a client can hold a pagination object in
SoloSlots == {1}     \* the place the single-traversal specification uses

Families == {"Clusters", "Whitelist", "DatabaseUsers", "Projects", "Alerts"}
Statuses == {"None", "OPEN", "CLOSED"}   \* get_all_alerts' status: None or a status
PageNums == 1..MaxPageNum
PageSizes == 0..(itemsPerPageMax + 1)
Totals == 0..MaxTotal
Counts == 0..MaxResults

\* What network.get can raise, and the shapes of the payload it can return.
NetErrors == {"ErrAtlasNotFound", "Timeout", "ErrMalformed"}
Shapes == {"full", "noTotalCount", "noResults"}

Max(a, b) == IF a >= b THEN a ELSE b
CeilDiv(a, b) == (a + b - 1) \div b

VARIABLES pagination, gen, lastOp
vars == <<pagination, gen, lastOp>>

\* ------------------------------------------------- pagination objects
NoPagination == [fetch |-> "none", status |-> "NA", pageNum |-> 0, itemsPerPage |-> 0]

\* AtlasPagination.__init__: stores the binding and the starting parameters.
AtlasPagination_init(fetch, status, pageNum, itemsPerPage) ==
    [fetch |-> fetch, status |-> status, pageNum |-> pageNum, itemsPerPage |-> itemsPerPage]

\* The five subclasses: each binds its family's list operation; AlertsGetAll
\* also stores the status filter.
GetAll(family, status, pageNum, itemsPerPage) ==
    AtlasPagination_init(family, IF family = "Alerts" THEN status ELSE "NA",
                         pageNum, itemsPerPage)

\* ErrPaginationLimits.checkAndRaise: TRUE when it returns without raising.
checkAndRaise(pageNum, itemsPerPage) ==
    itemsPerPage >= itemsPerPageMin /\ itemsPerPage <= itemsPerPageMax

\* The uri a list operation requests (Settings.api_resources[...] % (...)).
\* (ListUriFirstPageOnly filters the first page alone: a faulty variant.)
ListUriFirstPageOnly(family, status, pageNum, itemsPerPage) ==
    [resource |-> IF family = "Alerts" /\ status \notin {"None", "NA"} /\ pageNum = 1
                      THEN "Get All Alerts with status" ELSE "Get All",
     family |-> family,
     status |-> IF family = "Alerts" /\ status \notin {"None", "NA"} /\ pageNum = 1
                   THEN status ELSE "NA",
     pageNum |-> pageNum, itemsPerPage |-> itemsPerPage]

ListUri(family, status, pageNum, itemsPerPage) ==
    [resource |-> IF family = "Alerts" /\ status \notin {"None", "NA"}
                      THEN "Get All Alerts with status" ELSE "Get All",
     family |-> family,
     status |-> IF family = "Alerts" /\ status \notin {"None", "NA"} THEN status ELSE "NA",
     pageNum |-> pageNum, itemsPerPage |-> itemsPerPage]

\* ------------------------------------------------ resource operations
\* What a transport call (network.get / network.delete) can do: return a
\* parsed response, or raise.
Payloads == {"payload1", "payload2"}
Return(v) == [kind |-> "return", value |-> v]
Raise(e) == [kind |-> "raise", value |-> e]
NetOutcomes == {Return(v) : v \in Payloads} \cup {Raise(e) : e \in NetErrors}

\* The last resource operation a client called: its name and arguments, how
\* it ended, and the transport calls it made.
NoOp == [op |-> "none", args |-> <<>>, result |-> Return("none"), calls |-> <<>>]
Ended(op, args, result, calls) ==
    [op |-> op, args |-> args, result |-> result, calls |-> calls]

Names == {"name1", "name2"}                 \* cluster and user names
Flags == {"absent", "False", "True"}        \* areYouSure: omitted, False, True
Truthy(flag) == flag = "True"               \* the default of areYouSure is False

\* The transport calls of one list request, made by a list operation called
\* directly or by a page fetch: one GET of its uri
\* (return self.atlas.network.get(Settings.BASE_URL + uri)).
\* (ListCallsRetried asks twice: a faulty variant.)
ListCallsRetried(uri, out) ==
    <<[method |-> "GET", uri |-> uri, outcome |-> out],
      [method |-> "GET", uri |-> uri, outcome |-> out]>>

ListCalls(uri, out) == <<[method |-> "GET", uri |-> uri, outcome |-> out]>>

\* ----------------------------------------------------------- generators
NoGen == [pc |-> "NoGenerator", pageNum |-> 0, total |-> 0, results |-> <<>>,
          results_count |-> 0, index |-> 0,
          log |-> <<>>, yielded |-> <<>>, raised |-> <<>>, last |-> "none",
          iter |-> 0, prevEnd |-> "none", pulledAfterEnd |-> FALSE]

Terminal == {"Exhausted", "Failed"}

\* The items of a page: the engine treats them as opaque values.
PageItems(p, c) == [i \in 1..c |-> <<p, i>>]

\* line 574: the outer while's test, entered with pageNum and total set.
\* (LoopTestSkewed is the test with <= for <: a faulty variant, used to show
\* that the fetch count depends on the comparison.)
LoopTestSkewed(g, n) ==
    IF g.pageNum * n - g.total <= n
        THEN [g EXCEPT !.pc = "FetchingPage", !.last = "pending"]
        ELSE [g EXCEPT !.pc = "Exhausted", !.last = "StopIteration"]

\* (LoopTestAlways never leaves the loop: a faulty variant.)
LoopTestAlways(g, n) == [g EXCEPT !.pc = "FetchingPage", !.last = "pending"]

\* (LoopTestFirstTotal keeps to the first total the traversal saw: a faulty
\* variant.)
LoopTestFirstTotal(g, n) ==
    IF g.pageNum * n - (IF g.log = <<>> THEN g.total ELSE g.log[1].total) < n
        THEN [g EXCEPT !.pc = "FetchingPage", !.last = "pending"]
        ELSE [g EXCEPT !.pc = "Exhausted", !.last = "StopIteration"]

LoopTest(g, n) ==
    IF g.pageNum * n - g.total < n
        THEN [g EXCEPT !.pc = "FetchingPage", !.last = "pending"]
        ELSE [g EXCEPT !.pc = "Exhausted", !.last = "StopIteration"]

\* lines 588-594: the inner while: yield the next result of the page, or move
\* to the next page and test the outer loop again.
\* (EmitReversed walks the page backwards and EmitPrefetching asks for the next
\* page as it yields the last item: faulty variants.)
EmitReversed(g, n) ==
    IF g.index < g.results_count
        THEN [g EXCEPT !.index = @ + 1,
                       !.yielded = Append(@, g.results[g.results_count - g.index]),
                       !.pc = "EmittingResults", !.last = "item"]
        ELSE LoopTest([g EXCEPT !.pageNum = @ + 1], n)

EmitPrefetching(g, n) ==
    IF g.index < g.results_count
        THEN IF g.index + 1 = g.results_count
                THEN LoopTest([g EXCEPT !.index = @ + 1,
                                        !.yielded = Append(@, g.results[g.index + 1]),
                                        !.pageNum = @ + 1], n)
                ELSE [g EXCEPT !.index = @ + 1,
                               !.yielded = Append(@, g.results[g.index + 1]),
                               !.pc = "EmittingResults", !.last = "item"]
        ELSE LoopTest([g EXCEPT !.pageNum = @ + 1], n)

\* (EmitSkipping moves two pages on at the end of a page: a faulty variant.)
EmitSkipping(g, n) ==
    IF g.index < g.results_count
        THEN [g EXCEPT !.index = @ + 1,
                       !.yielded = Append(@, g.results[g.index + 1]),
                       !.pc = "EmittingResults", !.last = "item"]
        ELSE LoopTest([g EXCEPT !.pageNum = @ + 2], n)

Emit(g, n) ==
    IF g.index < g.results_count
        THEN [g EXCEPT !.index = @ + 1,
                       !.yielded = Append(@, g.results[g.index + 1]),
                       !.pc = "EmittingResults", !.last = "item"]
        ELSE LoopTest([g EXCEPT !.pageNum = @ + 1], n)

\* lines 569-572: the generator's first advance.
\* (StartWithoutFakeValue enters the loop with total 0: a faulty variant.)
StartWithoutFakeValue(g, obj) ==
    LoopTest([g EXCEPT !.pageNum = obj.pageNum, !.total = 0], obj.itemsPerPage)

Start(g, obj) ==
    LoopTest([g EXCEPT !.pageNum = obj.pageNum,
                       !.total = obj.pageNum * obj.itemsPerPage], obj.itemsPerPage)

\* ------------------------------------------------------------- actions
Init ==
    /\ pagination = [s \in Slots |-> NoPagination]
    /\ gen = [s \in Slots |-> NoGen]
    /\ lastOp = NoOp

\* A client constructs one of the five pagination objects in an empty place.
Construct(s) ==
    /\ pagination[s] = NoPagination
    /\ \E family \in Families, status \in Statuses, p \in PageNums, n \in PageSizes :
          /\ family /= "Alerts" => status = "None"
          /\ pagination' = [pagination EXCEPT ![s] = GetAll(family, status, p, n)]
    /\ gen' = [gen EXCEPT ![s] = NoGen]
    /\ UNCHANGED lastOp

\* iter(obj): calling the generator function runs none of its body, and
\* every call makes a new generator.
\* (AtlasPagination_iterOnce hands back a finished generator once a traversal
\* of the object has ended: a faulty variant.)
AtlasPagination_iterOnce(s) ==
    /\ pagination[s] /= NoPagination
    /\ gen[s].pc /= "FetchingPage"
    /\ gen[s].iter < MaxIters
    /\ gen' = [gen EXCEPT ![s] =
                  IF gen[s].pc \in Terminal
                     THEN [NoGen EXCEPT !.pc = gen[s].pc, !.iter = gen[s].iter + 1,
                                        !.prevEnd = gen[s].pc]
                     ELSE [NoGen EXCEPT !.pc = "Initial", !.iter = gen[s].iter + 1,
                                        !.prevEnd = gen[s].pc]]
    /\ UNCHANGED <<pagination, lastOp>>

AtlasPagination_iter(s) ==
    /\ pagination[s] /= NoPagination
    /\ gen[s].pc /= "FetchingPage"
    /\ gen[s].iter < MaxIters
    /\ gen' = [gen EXCEPT ![s] = [NoGen EXCEPT !.pc = "Initial",
                                               !.iter = gen[s].iter + 1,
                                               !.prevEnd = gen[s].pc]]
    /\ UNCHANGED <<pagination, lastOp>>

\* next(generator): runs the generator up to its next yield, its end, or the
\* next call of the fetch binding. A finished generator raises StopIteration.
\* (PullRestarting starts over when a finished generator is pulled, and
\* PullSharedCursor keeps one page counter for all generators: faulty variants.)
PullSharedCursor(s) ==
    /\ gen[s].pc \in {"Initial", "EmittingResults"} \cup Terminal
    /\ LET new == CASE gen[s].pc = "Initial" -> Start(gen[s], pagination[s])
                     [] gen[s].pc = "EmittingResults" -> Emit(gen[s], pagination[s].itemsPerPage)
                     [] OTHER -> [gen[s] EXCEPT !.last = "StopIteration",
                                                !.pulledAfterEnd = TRUE]
       IN  gen' = [t \in Slots |->
                     IF t = s THEN new
                     ELSE IF gen[t].pc \in {"EmittingResults", "FetchingPage"}
                             THEN [gen[t] EXCEPT !.pageNum = new.pageNum]
                             ELSE gen[t]]
    /\ UNCHANGED <<pagination, lastOp>>

\* (PullWritingBack stores the running page counter in the object: a faulty
\* variant.)
PullWritingBack(s) ==
    /\ gen[s].pc \in {"Initial", "EmittingResults"} \cup Terminal
    /\ gen' = [gen EXCEPT ![s] =
                  CASE gen[s].pc = "Initial" -> Start(gen[s], pagination[s])
                    [] gen[s].pc = "EmittingResults" -> Emit(gen[s], pagination[s].itemsPerPage)
                    [] OTHER -> [gen[s] EXCEPT !.last = "StopIteration",
                                               !.pulledAfterEnd = TRUE]]
    /\ pagination' = [pagination EXCEPT ![s].pageNum = gen'[s].pageNum]
    /\ UNCHANGED lastOp

PullRestarting(s) ==
    /\ gen[s].pc \in {"Initial", "EmittingResults"} \cup Terminal
    /\ gen' = [gen EXCEPT ![s] =
                  CASE gen[s].pc = "Initial" -> Start(gen[s], pagination[s])
                    [] gen[s].pc = "EmittingResults" -> Emit(gen[s], pagination[s].itemsPerPage)
                    [] OTHER -> Start([gen[s] EXCEPT !.pulledAfterEnd = TRUE], pagination[s])]
    /\ UNCHANGED <<pagination, lastOp>>

Pull(s) ==
    /\ gen[s].pc \in {"Initial", "EmittingResults"} \cup Terminal
    /\ gen' = [gen EXCEPT ![s] =
                  CASE gen[s].pc = "Initial" -> Start(gen[s], pagination[s])
                    [] gen[s].pc = "EmittingResults" -> Emit(gen[s], pagination[s].itemsPerPage)
                    [] OTHER -> [gen[s] EXCEPT !.last = "StopIteration",
                                               !.pulledAfterEnd = TRUE]]
    /\ UNCHANGED <<pagination, lastOp>>

\* lines 576-586: self.fetch(pageNum, self.itemsPerPage) returns or raises, and
\* the generator runs on to its next yield, its end or the next fetch.
\* The binding is the family's list operation called directly: it checks the
\* limits, then makes one GET.
\* (FetchRaisesSwallowed takes a failed fetch for an empty page and goes on: a
\* faulty variant.)
FetchRaisesSwallowed(g, req, e, calls) ==
    LoopTest([g EXCEPT !.pageNum = @ + 1,
                       !.log = Append(@, [req |-> req, outcome |-> e, calls |-> calls,
                                          total |-> 0, count |-> 0])],
             req.itemsPerPage)

FetchRaises(g, req, e, calls) ==
    [g EXCEPT !.pc = "Failed", !.last = "ErrPagination",
              !.raised = Append(@, "ErrPagination"),
              !.log = Append(@, [req |-> req, outcome |-> e, calls |-> calls,
                                 total |-> 0, count |-> 0])]

FetchReturns(g, n, req, shape, total, count) ==
    LET logged == [g EXCEPT !.log = Append(@, [req |-> req, outcome |-> shape,
                                               calls |-> ListCalls(req, Return(shape)),
                                               total |-> total, count |-> count])]
    IN  CASE shape = "noTotalCount" ->
                 [logged EXCEPT !.pc = "Failed", !.last = "KeyError",
                                !.raised = Append(@, "KeyError")]
          [] shape = "noResults" ->
                 [logged EXCEPT !.total = total, !.pc = "Failed", !.last = "KeyError",
                                !.raised = Append(@, "KeyError")]
          [] OTHER ->
                 Emit([logged EXCEPT !.total = total,
                                     !.results = PageItems(g.pageNum, count),
                                     !.results_count = count,
                                     !.index = 0], n)

\* The fetch of one page against a transport that can raise one of errors,
\* return a full payload <<totalCount, len(results)>> of fulls, or return a
\* payload of one of shapes.
FetchWith(s, errors, fulls, shapes) ==
    LET g == gen[s]
        obj == pagination[s]
        n == obj.itemsPerPage
        req == ListUri(obj.fetch, obj.status, g.pageNum, n)
    IN  /\ g.pc = "FetchingPage"
        /\ IF ~checkAndRaise(g.pageNum, n)
              THEN gen' = [gen EXCEPT ![s] = FetchRaises(g, req, "ErrPaginationLimits", <<>>)]
              ELSE \/ \E e \in errors :
                         gen' = [gen EXCEPT ![s] = FetchRaises(g, req, e, ListCalls(req, Raise(e)))]
                   \/ \E full \in fulls :
                         gen' = [gen EXCEPT ![s] = FetchReturns(g, n, req, "full", full[1], full[2])]
                   \/ \E shape \in shapes :
                         gen' = [gen EXCEPT ![s] = FetchReturns(g, n, req, shape, 0, 0)]
        /\ UNCHANGED <<pagination, lastOp>>

\* Against any transport: any error, any totalCount, any page length.
FetchPage(s) == FetchWith(s, NetErrors, Totals \X Counts, Shapes \ {"full"})

\* ------------------------------------------------ two traversals at once
\* A transport in front of a collection of MaxTotal items that does not
\* change: page p of size n holds the items (p-1)*n+1 .. min(p*n, MaxTotal),
\* and a call can time out.
HonestCount(p, n, total) ==
    IF total - (p - 1) * n <= 0 THEN 0
    ELSE IF total - (p - 1) * n >= n THEN n ELSE total - (p - 1) * n

FetchHonest(s) ==
    FetchWith(s, {"Timeout"},
              {<<MaxTotal, HonestCount(gen[s].pageNum, pagination[s].itemsPerPage, MaxTotal)>>},
              {})

\* One thread: while a generator waits for its fetch, the caller is inside
\* that next() and does nothing else.
OthersIdle(s) == \A t \in Slots \ {s} : gen[t].pc /= "FetchingPage"

NextPair ==
    \E s \in Slots :
        \/ OthersIdle(s) /\ Construct(s)
        \/ OthersIdle(s) /\ gen[s].iter = 0 /\ AtlasPagination_iter(s)
        \/ OthersIdle(s) /\ Pull(s)
        \/ FetchHonest(s)

SpecPair == Init /\ [][NextPair]_vars

\* get_all_clusters and its four siblings: check the limits, then return a
\* pagination object (iterable) or make one GET and return its response.
\* (ListOperationUnchecked leaves the limits check out: a faulty variant.)
ListOperationUnchecked(s, op, family, status, pageNum, itemsPerPage, iterable) ==
    LET args == <<status, pageNum, itemsPerPage, iterable>>
        uri == ListUri(family, status, pageNum, itemsPerPage)
    IN  IF iterable
           THEN /\ pagination' = [pagination EXCEPT ![s] = GetAll(family, status, pageNum, itemsPerPage)]
                /\ gen' = [gen EXCEPT ![s] = NoGen]
                /\ lastOp' = Ended(op, args, Return("AtlasPagination"), <<>>)
           ELSE /\ \E out \in NetOutcomes :
                      lastOp' = Ended(op, args, out, ListCalls(uri, out))
                /\ UNCHANGED <<pagination, gen>>

ListOperation(s, op, family, status, pageNum, itemsPerPage, iterable) ==
    LET args == <<status, pageNum, itemsPerPage, iterable>>
        uri == ListUri(family, status, pageNum, itemsPerPage)
    IN  IF ~checkAndRaise(pageNum, itemsPerPage)
           THEN /\ lastOp' = Ended(op, args, Raise("ErrPaginationLimits"), <<>>)
                /\ UNCHANGED <<pagination, gen>>
           ELSE IF iterable
           THEN /\ pagination' = [pagination EXCEPT ![s] = GetAll(family, status, pageNum, itemsPerPage)]
                /\ gen' = [gen EXCEPT ![s] = NoGen]
                /\ lastOp' = Ended(op, args, Return("AtlasPagination"), <<>>)
           ELSE /\ \E out \in NetOutcomes :
                      lastOp' = Ended(op, args, out, ListCalls(uri, out))
                /\ UNCHANGED <<pagination, gen>>

get_all_clusters(s) ==
    \E p \in PageNums, n \in PageSizes, iterable \in BOOLEAN :
        ListOperation(s, "get_all_clusters", "Clusters", "NA", p, n, iterable)

get_all_whitelist_entries(s) ==
    \E p \in PageNums, n \in PageSizes, iterable \in BOOLEAN :
        ListOperation(s, "get_all_whitelist_entries", "Whitelist", "NA", p, n, iterable)

get_all_database_users(s) ==
    \E p \in PageNums, n \in PageSizes, iterable \in BOOLEAN :
        ListOperation(s, "get_all_database_users", "DatabaseUsers", "NA", p, n, iterable)

get_all_projects(s) ==
    \E p \in PageNums, n \in PageSizes, iterable \in BOOLEAN :
        ListOperation(s, "get_all_projects", "Projects", "NA", p, n, iterable)

get_all_alerts(s) ==
    \E status \in Statuses, p \in PageNums, n \in PageSizes, iterable \in BOOLEAN :
        ListOperation(s, "get_all_alerts", "Alerts", status, p, n, iterable)

\* delete_a_cluster: one DELETE when areYouSure is true, else
\* ErrConfirmationRequested.
\* (delete_a_cluster_unguarded deletes whatever areYouSure is: a faulty variant.)
delete_a_cluster_unguarded(cluster, areYouSure) ==
    /\ \E out \in NetOutcomes :
           lastOp' = Ended("delete_a_cluster", <<cluster, areYouSure>>, out,
                           <<[method |-> "DELETE", uri |-> <<"Delete a Cluster", cluster>>, outcome |-> out]>>)
    /\ UNCHANGED <<pagination, gen>>

delete_a_cluster(cluster, areYouSure) ==
    /\ IF Truthy(areYouSure)
          THEN \E out \in NetOutcomes :
                  lastOp' = Ended("delete_a_cluster", <<cluster, areYouSure>>, out,
                                  <<[method |-> "DELETE", uri |-> <<"Delete a Cluster", cluster>>, outcome |-> out]>>)
          ELSE lastOp' = Ended("delete_a_cluster", <<cluster, areYouSure>>,
                               Raise("ErrConfirmationRequested"), <<>>)
    /\ UNCHANGED <<pagination, gen>>

\* delete_a_database_user: takes the user only, and makes one DELETE.
delete_a_database_user(user) ==
    /\ \E out \in NetOutcomes :
           lastOp' = Ended("delete_a_database_user", <<user>>, out,
                           <<[method |-> "DELETE", uri |-> <<"Delete a Database User", user>>, outcome |-> out]>>)
    /\ UNCHANGED <<pagination, gen>>

\* ------------------------------------------ the other direct operations
\* An operation that builds a uri (and a body), makes one transport call and
\* returns what it returns: return self.atlas.network.<method>(uri[, body]).
OneCall(op, args, method, uri, body) ==
    /\ \E out \in NetOutcomes :
           lastOp' = Ended(op, args, out,
                           <<[method |-> method, uri |-> uri, body |-> body, outcome |-> out]>>)
    /\ UNCHANGED <<pagination, gen>>

get_a_single_cluster(cluster) ==
    OneCall("get_a_single_cluster", <<cluster>>, "GET", <<"Get a Single Cluster", cluster>>, "none")

\* is_existing_cluster: get_a_single_cluster, True when it returns, False when
\* it raises ErrAtlasNotFound; any other error goes on to the caller.
\* (is_existing_cluster_any takes every error for "not found": a faulty variant.)
is_existing_cluster_any(cluster) ==
    /\ \E out \in NetOutcomes :
           lastOp' = Ended("is_existing_cluster", <<cluster>>,
                           IF out.kind = "return" THEN Return("True") ELSE Return("False"),
                           <<[method |-> "GET", uri |-> <<"Get a Single Cluster", cluster>>,
                              body |-> "none", outcome |-> out]>>)
    /\ UNCHANGED <<pagination, gen>>

is_existing_cluster(cluster) ==
    /\ \E out \in NetOutcomes :
           lastOp' = Ended("is_existing_cluster", <<cluster>>,
                           IF out.kind = "return" THEN Return("True")
                           ELSE IF out = Raise("ErrAtlasNotFound") THEN Return("False")
                           ELSE out,
                           <<[method |-> "GET", uri |-> <<"Get a Single Cluster", cluster>>,
                              body |-> "none", outcome |-> out]>>)
    /\ UNCHANGED <<pagination, gen>>

get_whitelist_entry(ip_address) ==
    OneCall("get_whitelist_entry", <<ip_address>>, "GET", <<"Get Whitelist Entry", ip_address>>, "none")

create_whitelist_entry(ip_address, comment) ==
    OneCall("create_whitelist_entry", <<ip_address, comment>>, "POST", <<"Create Whitelist Entry">>,
            <<[ipAddress |-> ip_address, comment |-> comment]>>)

delete_a_whitelist_entry(ip_address) ==
    OneCall("delete_a_whitelist_entry", <<ip_address>>, "DELETE",
            <<"Delete Whitelist Entry", ip_address>>, "none")

get_a_single_database_user(user) ==
    OneCall("get_a_single_database_user", <<user>>, "GET", <<"Get a Single Database User", user>>, "none")

create_a_database_user(permissions) ==
    OneCall("create_a_database_user", <<permissions>>, "POST", <<"Create a Database User">>,
            <<"getSpecs", permissions>>)

update_a_database_user(user, permissions) ==
    OneCall("update_a_database_user", <<user, permissions>>, "PATCH",
            <<"Update a Database User", user>>, <<"getSpecs", permissions>>)

get_one_project(groupid) ==
    OneCall("get_one_project", <<groupid>>, "GET", <<"Get One Project", groupid>>, "none")

\* create_a_project: orgId goes into the body only when it is given.
create_a_project(name, orgId) ==
    OneCall("create_a_project", <<name, orgId>>, "POST", <<"Create a Project">>,
            IF orgId /= "None" THEN <<"name", name, "orgId", orgId>> ELSE <<"name", name>>)

get_an_alert(alert) ==
    OneCall("get_an_alert", <<alert>>, "GET", <<"Get an Alert", alert>>, "none")

\* ------------------------------------------------ alert acknowledgement
\* A datetime: the calendar fields, the microsecond, and the zone ("utc" for
\* an aware UTC datetime such as datetime.now(timezone.utc)).
IsLeap(y) == (y % 4 = 0 /\ y % 100 /= 0) \/ y % 400 = 0
DaysInMonth(y, m) ==
    IF m = 2 THEN (IF IsLeap(y) THEN 29 ELSE 28)
    ELSE IF m \in {4, 6, 9, 11} THEN 30 ELSE 31

DateTime(y, mo, d, h, mi, sec, us) ==
    [year |-> y, month |-> mo, day |-> d, hour |-> h, minute |-> mi, second |-> sec,
     microsecond |-> us, tz |-> "utc"]

\* dt + relativedelta(years=k): the year moves, and a day the new month lacks
\* becomes that month's last day.
PlusYears(dt, k) ==
    [dt EXCEPT !.year = @ + k,
               !.day = IF dt.day > DaysInMonth(dt.year + k, dt.month)
                          THEN DaysInMonth(dt.year + k, dt.month) ELSE dt.day]

\* dt - relativedelta(days=1)
MinusOneDay(dt) ==
    IF dt.day > 1 THEN [dt EXCEPT !.day = @ - 1]
    ELSE IF dt.month > 1
            THEN [dt EXCEPT !.month = @ - 1, !.day = DaysInMonth(dt.year, dt.month - 1)]
            ELSE [dt EXCEPT !.year = @ - 1, !.month = 12, !.day = 31]

\* dt.isoformat(timespec='seconds'): YYYY-MM-DDTHH:MM:SS and the zone's offset;
\* the microsecond is dropped, not rounded.
\* (isoformatRounded rounds the second up from half a second: a faulty variant.)
isoformatRounded(dt) ==
    [year |-> dt.year, month |-> dt.month, day |-> dt.day,
     hour |-> dt.hour, minute |-> dt.minute,
     second |-> IF dt.microsecond >= 500000 THEN (dt.second + 1) % 60 ELSE dt.second,
     offset |-> IF dt.tz = "utc" THEN "+00:00" ELSE ""]

isoformat(dt) ==
    [year |-> dt.year, month |-> dt.month, day |-> dt.day,
     hour |-> dt.hour, minute |-> dt.minute, second |-> dt.second,
     offset |-> IF dt.tz = "utc" THEN "+00:00" ELSE ""]

\* The readings of the clock (datetime.now) and the comments the alerts
\* specification draws from.
Clock == {DateTime(y, md[1], md[2], 23, 59, 59, us) :
             y \in {2024, 2400}, md \in {<<2, 29>>, <<3, 1>>, <<1, 1>>}, us \in {0, 999999}}
Comments == {"None", "note"}

\* acknowledge_an_alert: one PATCH whose body holds until as text, and the
\* comment when there is one. The caller's op and args are kept for the record.
Acknowledge(op, args, alert, until, comment) ==
    OneCall(op, args, "PATCH", <<"Acknowledge an Alert", alert>>,
            IF comment /= "None"
               THEN [acknowledgedUntil |-> isoformat(until), acknowledgementComment |-> comment]
               ELSE [acknowledgedUntil |-> isoformat(until), acknowledgementComment |-> "absent"])

acknowledge_an_alert(alert, until, comment) ==
    Acknowledge("acknowledge_an_alert", <<alert, comment, until>>, alert, until, comment)

\* unacknowledge_an_alert: until is one day before now, and no comment.
unacknowledge_an_alert(alert, now) ==
    Acknowledge("unacknowledge_an_alert", <<alert, "None", now>>, alert, MinusOneDay(now), "None")

\* acknowledge_an_alert_forever: until is 100 years after now.
acknowledge_an_alert_forever(alert, comment, now) ==
    Acknowledge("acknowledge_an_alert_forever", <<alert, comment, now>>, alert,
                PlusYears(now, 100), comment)

NextAlerts ==
    \/ \E alert \in Names : get_an_alert(alert)
    \/ \E alert \in Names, until \in Clock, comment \in Comments :
          acknowledge_an_alert(alert, until, comment)
    \/ \E alert \in Names, now \in Clock : unacknowledge_an_alert(alert, now)
    \/ \E alert \in Names, comment \in Comments, now \in Clock :
          acknowledge_an_alert_forever(alert, comment, now)

SpecAlerts == Init /\ [][NextAlerts]_vars

\* ------------------------------- every operation, beside one traversal
\* Each operation with one choice of arguments, and a traversal of a list
\* against the transport of FetchHonest.
OneName == "name1"
OneClock == DateTime(2024, 3, 1, 23, 59, 59, 999999)

NextCalls ==
    \/ \E iterable \in BOOLEAN :
          \/ ListOperation(1, "get_all_clusters", "Clusters", "NA", 1, itemsPerPageMax, iterable)
          \/ ListOperation(1, "get_all_whitelist_entries", "Whitelist", "NA", 1, itemsPerPageMax, iterable)
          \/ ListOperation(1, "get_all_database_users", "DatabaseUsers", "NA", 1, itemsPerPageMax, iterable)
          \/ ListOperation(1, "get_all_projects", "Projects", "NA", 1, itemsPerPageMax, iterable)
          \/ ListOperation(1, "get_all_alerts", "Alerts", "OPEN", 1, itemsPerPageMax, iterable)
    \/ gen[1].iter = 0 /\ AtlasPagination_iter(1)
    \/ Pull(1)
    \/ FetchHonest(1)
    \/ is_existing_cluster(OneName)
    \/ get_a_single_cluster(OneName)
    \/ delete_a_cluster(OneName, "True")
    \/ get_whitelist_entry(OneName)
    \/ create_whitelist_entry(OneName, "note")
    \/ delete_a_whitelist_entry(OneName)
    \/ get_a_single_database_user(OneName)
    \/ create_a_database_user(OneName)
    \/ update_a_database_user(OneName, OneName)
    \/ delete_a_database_user(OneName)
    \/ get_one_project(OneName)
    \/ \E orgId \in {"None", "org1"} : create_a_project(OneName, orgId)
    \/ get_an_alert(OneName)
    \/ acknowledge_an_alert(OneName, OneClock, "note")
    \/ unacknowledge_an_alert(OneName, OneClock)
    \/ acknowledge_an_alert_forever(OneName, "None", OneClock)

SpecCalls == Init /\ [][NextCalls]_vars

NextOps ==
    \/ \E s \in SoloSlots :
          \/ get_all_clusters(s)
          \/ get_all_whitelist_entries(s)
          \/ get_all_database_users(s)
          \/ get_all_projects(s)
          \/ get_all_alerts(s)
    \/ \E cluster \in Names, areYouSure \in Flags : delete_a_cluster(cluster, areYouSure)
    \/ \E user \in Names : delete_a_database_user(user)

SpecOps == Init /\ [][NextOps]_vars

\* ------------------------------------- a consumer that keeps pulling
\* A transport whose totalCount has no bound: once it has reported a total
\* above MaxTotal it goes on reporting one, always ahead of the pages asked
\* for, with full pages. Pages beyond MaxPages are not asked for: the cap
\* that keeps the traversal against such a transport finite.
Beyond(g) == g.log /= <<>> /\ g.log[Len(g.log)].total > MaxTotal

Growing(g, n) == {<<Max(MaxTotal, g.pageNum * n) + 1, n>>}

FetchLive(s) ==
    LET g == gen[s]
        n == pagination[s].itemsPerPage
    IN  /\ g.pageNum <= MaxPages
        /\ FetchWith(s, NetErrors,
                     IF g.log = <<>> THEN (Totals \X Counts) \cup Growing(g, n)
                     ELSE IF Beyond(g) THEN Growing(g, n) ELSE Totals \X Counts,
                     Shapes \ {"full"})

\* The object traversed is the one get_all_clusters hands out when asked for
\* an iterable.
NextLive ==
    \E s \in SoloSlots :
        \/ /\ pagination[s] = NoPagination
           /\ \E p \in PageNums, n \in PageSizes :
                  ListOperation(s, "get_all_clusters", "Clusters", "NA", p, n, TRUE)
        \/ AtlasPagination_iter(s)
        \/ Pull(s)
        \/ FetchLive(s)

\* The consumer keeps pulling, and the transport answers every request.
SpecLive ==
    /\ Init /\ [][NextLive]_vars
    /\ \A s \in SoloSlots : WF_vars(Pull(s)) /\ WF_vars(FetchLive(s))

Next ==
    \E s \in SoloSlots :
        \/ Construct(s)
        \/ AtlasPagination_iter(s)
        \/ Pull(s)
        \/ FetchPage(s)

Spec == Init /\ [][Next]_vars

\* ----------------------------------------------------------- properties
\* The items of the pages a generator fetched, in fetch order.
RECURSIVE Items(_)
Items(log) ==
    IF log = <<>> THEN <<>>
    ELSE LET e == log[Len(log)]
         IN  Items(SubSeq(log, 1, Len(log) - 1)) \o
             (IF e.outcome = "full" THEN PageItems(e.req.pageNum, e.count) ELSE <<>>)

\* Every fetch so far returned a full payload with the same totalCount.
ConstantTotal(g) ==
    \A i \in 1..Len(g.log) : g.log[i].outcome = "full" /\ g.log[i].total = g.log[1].total

\* The fetch binding raised on the last fetch.
BindingFailed(g) ==
    /\ g.log /= <<>>
    /\ g.log[Len(g.log)].outcome \in NetErrors \cup {"ErrPaginationLimits"}

\* C1: with a binding that always succeeds and reports a constant totalCount T,
\* a traversal started at page 1 with itemsPerPage n >= 1 never makes more than
\* max(1, ceil(T / n)) fetches, and has made exactly that many when Exhausted.
C1_FetchCount ==
    \A s \in Slots :
        LET g == gen[s]
            n == pagination[s].itemsPerPage
        IN  (pagination[s].pageNum = 1 /\ n >= 1 /\ g.log /= <<>> /\ ConstantTotal(g))
               => /\ Len(g.log) <= Max(1, CeilDiv(g.log[1].total, n))
                  /\ g.pc = "Exhausted" => Len(g.log) = Max(1, CeilDiv(g.log[1].total, n))

C1_Witness ==
    /\ gen[1].pc = "Exhausted" /\ pagination[1].pageNum = 1
    /\ pagination[1].itemsPerPage = 2 /\ ConstantTotal(gen[1])
    /\ Len(gen[1].log) = 2 /\ gen[1].log[1].total = 3

\* C2: the items yielded are a prefix of the concatenation, in fetch order, of
\* the fetched pages' results, and are the whole of it once the traversal ended.
C2_YieldedInOrder ==
    \A s \in Slots :
        LET g == gen[s]
            all == Items(g.log)
        IN  /\ Len(g.yielded) <= Len(all)
            /\ g.yielded = SubSeq(all, 1, Len(g.yielded))
            /\ g.pc \in Terminal => g.yielded = all

C2_Witness ==
    /\ gen[1].pc = "Exhausted" /\ Len(gen[1].log) = 2
    /\ gen[1].log[1].count = 2 /\ gen[1].log[2].count = 1
    /\ Len(gen[1].yielded) = 3

\* C3: when the binding raises on a page after the starting page, every item of
\* the earlier pages has been yielded, exactly one ErrPagination has been
\* raised and the generator is Failed; from then on a pull yields nothing,
\* fetches nothing and raises nothing again.
C3_FailedNow(g) ==
    (BindingFailed(g) /\ Len(g.log) >= 2)
       => /\ g.pc = "Failed"
          /\ g.raised = <<"ErrPagination">>
          /\ g.yielded = Items(g.log)
          /\ g.last \in {"ErrPagination", "StopIteration"}
          /\ g.last = "ErrPagination" <=> ~g.pulledAfterEnd

C3_FailedStays(g, h) ==
    (BindingFailed(g) /\ Len(g.log) >= 2 /\ h.iter = g.iter)
       => /\ h.pc = "Failed" /\ h.log = g.log
          /\ h.yielded = g.yielded /\ h.raised = g.raised
          /\ h.last \in {g.last, "StopIteration"}

C3_FailureOnce ==
    /\ [](\A s \in Slots : C3_FailedNow(gen[s]))
    /\ [][\A s \in Slots : C3_FailedStays(gen[s], gen'[s])]_vars

C3_Witness ==
    /\ BindingFailed(gen[1]) /\ Len(gen[1].log) = 2
    /\ gen[1].yielded /= <<>> /\ gen[1].pulledAfterEnd

\* C4: the only error a traversal ever raises to its caller is ErrPagination.
C4_OnlyPaginationError ==
    \A s \in Slots : \A i \in 1..Len(gen[s].raised) : gen[s].raised[i] = "ErrPagination"

\* C5: delete_a_database_user called without an affirmative confirmation raises
\* ErrConfirmationRequested and makes no transport call.
C5_UserDeleteGuarded ==
    lastOp.op = "delete_a_database_user"
       => lastOp.result = Raise("ErrConfirmationRequested") /\ lastOp.calls = <<>>

\* C6: delete_a_cluster without confirmation (areYouSure omitted or False)
\* raises ErrConfirmationRequested and makes no transport call; with it, it
\* makes exactly one DELETE of that cluster and ends as that call ended.
C6_ClusterDeleteGuard ==
    lastOp.op = "delete_a_cluster"
       => IF Truthy(lastOp.args[2])
             THEN /\ Len(lastOp.calls) = 1
                  /\ lastOp.calls[1].method = "DELETE"
                  /\ lastOp.calls[1].uri = <<"Delete a Cluster", lastOp.args[1]>>
                  /\ lastOp.result = lastOp.calls[1].outcome
             ELSE /\ lastOp.result = Raise("ErrConfirmationRequested")
                  /\ lastOp.calls = <<>>

C6_Witness ==
    /\ lastOp.op = "delete_a_cluster" /\ lastOp.args[2] = "absent"
    /\ lastOp.result = Raise("ErrConfirmationRequested") /\ lastOp.calls = <<>>

\* C7: a list operation called with itemsPerPage outside the limits, iterable
\* or not, raises ErrPaginationLimits, makes no transport call and constructs
\* no pagination object.
ListOps == {"get_all_clusters", "get_all_whitelist_entries", "get_all_database_users",
            "get_all_projects", "get_all_alerts"}

OutOfLimits(n) == n < itemsPerPageMin \/ n > itemsPerPageMax

C7_LimitsBeforeAnything ==
    [][(lastOp'.op \in ListOps /\ OutOfLimits(lastOp'.args[3]))
          => /\ lastOp'.result = Raise("ErrPaginationLimits")
             /\ lastOp'.calls = <<>>
             /\ pagination' = pagination /\ gen' = gen]_vars

C7_Witness ==
    /\ lastOp.op = "get_all_alerts" /\ lastOp.args[4] = TRUE
    /\ lastOp.args[3] = itemsPerPageMax + 1
    /\ lastOp.result = Raise("ErrPaginationLimits") /\ lastOp.calls = <<>>

\* C8: an Exhausted generator stays Exhausted: a further pull yields nothing
\* and fetches nothing.
C8_ExhaustedAbsorbing ==
    [][\A s \in Slots :
          (gen[s].pc = "Exhausted" /\ gen'[s].iter = gen[s].iter)
             => /\ gen'[s].pc = "Exhausted"
                /\ gen'[s].yielded = gen[s].yielded
                /\ gen'[s].log = gen[s].log
                /\ gen'[s].raised = gen[s].raised
                /\ gen'[s].last = "StopIteration"]_vars

C8_Witness ==
    /\ gen[1].pc = "Exhausted" /\ gen[1].pulledAfterEnd
    /\ gen[1].yielded /= <<>>

\* C9 as stated: iterating again an object already traversed to Exhausted or
\* Failed yields no item and makes no fetch.
C9_NotRestartableInPlace ==
    \A s \in Slots :
        (gen[s].iter >= 2 /\ gen[s].prevEnd \in Terminal)
           => gen[s].yielded = <<>> /\ gen[s].log = <<>>

\* C9 as amended: iterating again an object already traversed to Exhausted or
\* Failed starts a new traversal from the stored starting parameters: once
\* advanced with itemsPerPage >= 1 it fetches, and its first fetch asks for the
\* stored starting page with the stored itemsPerPage.
C9_RestartsInPlace ==
    \A s \in Slots :
        LET g == gen[s]
            obj == pagination[s]
        IN  (g.iter >= 2 /\ g.prevEnd \in Terminal)
               => /\ (g.pc /= "Initial" /\ obj.itemsPerPage >= 1)
                        => (g.log /= <<>> \/ g.pc = "FetchingPage")
                  /\ g.pc = "FetchingPage" /\ g.log = <<>> => g.pageNum = obj.pageNum
                  /\ g.log /= <<>>
                        => /\ g.log[1].req.pageNum = obj.pageNum
                           /\ g.log[1].req.itemsPerPage = obj.itemsPerPage

C9_Witness ==
    /\ gen[1].iter = 2 /\ gen[1].prevEnd = "Exhausted"
    /\ gen[1].pc = "Exhausted" /\ gen[1].yielded /= <<>>

\* C10: nothing is fetched before the first advance, and a fetch is asked for
\* only by a pull: the first one, or one made when every item of the page in
\* hand has been pulled (or right after a page that held no item).
C10_NothingAhead(g) ==
    /\ g.pc \in {"NoGenerator", "Initial"} => g.log = <<>>
    /\ g.pc = "FetchingPage" => g.last = "pending" /\ g.yielded = Items(g.log)

C10_AskedWhenDue(g, h) ==
    (h.pc = "FetchingPage" /\ h /= g)
       => \/ g.pc = "Initial"
          \/ g.pc = "EmittingResults" /\ g.index = g.results_count
          \/ /\ g.pc = "FetchingPage" /\ Len(h.log) = Len(g.log) + 1
             /\ h.log[Len(h.log)].count = 0

C10_Lazy ==
    /\ [](\A s \in Slots : C10_NothingAhead(gen[s]))
    /\ [][\A s \in Slots : C10_AskedWhenDue(gen[s], gen'[s])]_vars

C10_Witness ==
    /\ gen[1].pc = "FetchingPage" /\ Len(gen[1].log) = 1
    /\ Len(gen[1].yielded) = 2

\* The pages and the items a traversal of obj gets, alone, from the transport
\* of FetchHonest when no call times out.
LastPageAlone(obj) == Max(obj.pageNum, CeilDiv(MaxTotal, obj.itemsPerPage))

RECURSIVE ItemsAlone(_, _)
ItemsAlone(obj, p) ==
    IF p > LastPageAlone(obj) THEN <<>>
    ELSE PageItems(p, HonestCount(p, obj.itemsPerPage, MaxTotal)) \o ItemsAlone(obj, p + 1)

IsPrefix(a, b) == Len(a) <= Len(b) /\ a = SubSeq(b, 1, Len(a))

\* C11: however the pulls on two traversals interleave, a step of one leaves the
\* other's object and generator as they were, and each fetches the pages and
\* yields the items it would alone: pages start, start+1, ... up to its own last
\* page, and items a prefix of its own sequence.
C11_AsAlone(s) ==
    LET g == gen[s]
        obj == pagination[s]
    IN  obj.itemsPerPage >= 1
           => /\ \A i \in 1..Len(g.log) :
                    /\ g.log[i].req.pageNum = obj.pageNum + i - 1
                    /\ g.log[i].req.pageNum <= LastPageAlone(obj)
              /\ IsPrefix(g.yielded, ItemsAlone(obj, obj.pageNum))
              /\ g.pc = "Exhausted" => g.yielded = ItemsAlone(obj, obj.pageNum)

C11_OthersUntouched(s) ==
    (gen'[s] /= gen[s] \/ pagination'[s] /= pagination[s])
       => \A t \in Slots \ {s} : gen'[t] = gen[t] /\ pagination'[t] = pagination[t]

C11_NoSharedCursor ==
    /\ [](\A s \in Slots : C11_AsAlone(s))
    /\ [][\A s \in Slots : C11_OthersUntouched(s)]_vars

C11_Witness ==
    /\ pagination[1] = pagination[2] /\ pagination[1].itemsPerPage = 1
    /\ pagination[1].pageNum = 1
    /\ gen[1].pc = "EmittingResults" /\ Len(gen[1].yielded) = 1
    /\ gen[2].pc = "Exhausted" /\ Len(gen[2].yielded) = MaxTotal

\* --------------------------------------------------------------- C12
\* The error the transport raised in the operation lastOp records, if any.
TransportRaised == {lastOp.calls[i].outcome : i \in 1..Len(lastOp.calls)} \ {Return(v) : v \in Payloads}

\* C12 as stated: for every direct operation (not a traversal), an error the
\* transport raised reaches the caller unmodified: the operation ends by
\* raising that same error. is_existing_cluster does not.
C12_ErrorsUnmodified ==
    \A out \in TransportRaised : lastOp.result = out

\* C12, amended: an error the transport raised reaches the caller unmodified
\* from every direct operation, with one exception: is_existing_cluster
\* answers the transport's ErrAtlasNotFound by returning False, and lets every
\* other error through unmodified. Only a traversal re-wraps: whatever its
\* page fetch raised, the consumer is raised ErrPagination.
C12_ErrorsUnmodifiedButNotFound ==
    /\ \A out \in TransportRaised :
          IF lastOp.op = "is_existing_cluster" /\ out = Raise("ErrAtlasNotFound")
             THEN lastOp.result = Return("False")
             ELSE lastOp.result = out
    /\ \A s \in Slots :
          (gen[s].log /= <<>> /\ gen[s].log[Len(gen[s].log)].outcome \in NetErrors)
              => gen[s].raised = <<"ErrPagination">>

C12_Witness ==
    /\ lastOp.op = "is_existing_cluster"
    /\ lastOp.calls[1].outcome = Raise("Timeout")
    /\ lastOp.result = Raise("Timeout")
    /\ gen[1].pc = "Failed" /\ gen[1].log[Len(gen[1].log)].outcome = "Timeout"

\* --------------------------------------------------------------- C13
\* The number of transport calls a traversal has made.
RECURSIVE TransportCalls(_)
TransportCalls(log) ==
    IF log = <<>> THEN 0 ELSE Len(log[1].calls) + TransportCalls(Tail(log))

\* An operation that ended by returning what the service answered: any
\* operation but is_existing_cluster (a bool) and a list operation asked for
\* an iterable (a pagination object, nothing fetched yet).
ReturnedResponse ==
    /\ lastOp.op \notin {"none", "is_existing_cluster"}
    /\ lastOp.result.kind = "return"
    /\ lastOp.result /= Return("AtlasPagination")

\* C13: every successful direct list, get-one, create, update or delete
\* operation made exactly one transport call and returned that call's
\* response; and a traversal has made exactly as many transport calls as
\* pages it has fetched, one GET of the page's uri for each.
C13_OneCallEach ==
    /\ ReturnedResponse => /\ Len(lastOp.calls) = 1
                           /\ lastOp.result = lastOp.calls[1].outcome
    /\ \A s \in Slots :
          LET log == gen[s].log
              fetched == {i \in 1..Len(log) : log[i].outcome /= "ErrPaginationLimits"}
          IN  /\ TransportCalls(log) = Cardinality(fetched)
              /\ \A i \in fetched : /\ Len(log[i].calls) = 1
                                    /\ log[i].calls[1].method = "GET"
                                    /\ log[i].calls[1].uri = log[i].req

C13_Witness ==
    /\ lastOp.op = "update_a_database_user" /\ ReturnedResponse
    /\ gen[1].pc = "Exhausted" /\ Len(gen[1].log) = 2
    /\ \A i \in 1..2 : gen[1].log[i].outcome = "full"

\* --------------------------------------------------------------- C14
\* C14: in an alerts traversal constructed with a status filter, every page
\* fetch, the first and all later ones, is issued with that filter (with none
\* when none was given) and with the traversal's itemsPerPage.
C14_FilterOnEveryPage ==
    \A s \in Slots :
        (pagination[s] /= NoPagination /\ pagination[s].fetch = "Alerts") =>
            \A i \in 1..Len(gen[s].log) :
                LET req == gen[s].log[i].req
                    filter == pagination[s].status
                IN  /\ req.family = "Alerts"
                    /\ req.status = (IF filter = "None" THEN "NA" ELSE filter)
                    /\ req.resource = (IF filter = "None" THEN "Get All"
                                                          ELSE "Get All Alerts with status")
                    /\ req.itemsPerPage = pagination[s].itemsPerPage

C14_Witness ==
    /\ pagination[1] /= NoPagination
    /\ pagination[1].fetch = "Alerts" /\ pagination[1].status = "CLOSED"
    /\ Len(gen[1].log) = 3
    /\ gen[1].log[3].req.status = "CLOSED"

\* --------------------------------------------------------------- C16
\* The loop's decision after the page of log entry e, from that entry alone.
GoesOn(e, n) == (e.req.pageNum + 1) * n - e.total < n

\* C16: after page p has been fetched with total t and its items yielded, page
\* p+1 is fetched if and only if (p+1) * itemsPerPage - t < itemsPerPage, with
\* t the total of the most recent response, whatever earlier totals were.
C16_DecidedByLatestTotal ==
    \A s \in Slots :
        LET log == gen[s].log
            n == pagination[s].itemsPerPage
        IN  /\ \A i \in 1..(Len(log) - 1) : log[i].outcome = "full" /\ GoesOn(log[i], n)
            /\ (gen[s].pc = "FetchingPage" /\ log /= <<>>) => GoesOn(log[Len(log)], n)
            /\ (gen[s].pc = "Exhausted" /\ log /= <<>>) => ~GoesOn(log[Len(log)], n)

\* The total grew from 2 to 3, so a third page was fetched; then it shrank to
\* 1, and the traversal stopped.
C16_Witness ==
    /\ gen[1].pc = "Exhausted"
    /\ Len(gen[1].log) = 3
    /\ gen[1].log[1].total = 2 /\ gen[1].log[2].total = 3 /\ gen[1].log[3].total = 1

\* --------------------------------------------------------------- C17
\* C17: within one traversal started at page s, the page numbers passed to the
\* fetch binding are s, s+1, s+2, ... in that order, none skipped and none
\* twice, each with the itemsPerPage of the object; and the page about to be
\* asked for is the next one.
C17_PagesInSequence ==
    \A s \in Slots :
        LET log == gen[s].log
            obj == pagination[s]
        IN  /\ \A i \in 1..Len(log) : /\ log[i].req.pageNum = obj.pageNum + i - 1
                                      /\ log[i].req.itemsPerPage = obj.itemsPerPage
            /\ gen[s].pc = "FetchingPage" => gen[s].pageNum = obj.pageNum + Len(log)

C17_Witness ==
    /\ pagination[1] /= NoPagination /\ pagination[1].pageNum = 2
    /\ Len(gen[1].log) = 2
    /\ gen[1].log[1].req.pageNum = 2 /\ gen[1].log[2].req.pageNum = 3

\* --------------------------------------------------------------- C19
\* The pages a traversal has asked for.
PagesFetched(g) == {g.log[i].req.pageNum : i \in 1..Len(g.log)}

\* C19: with itemsPerPage n >= 1 (within the limits) and a constant totalCount
\* T, a traversal started at page s asks for pages of s .. max(s, ceil(T/n))
\* only, and for exactly those once it is Exhausted; the first advance always
\* asks for page s, even when s lies beyond the last page.
C19_PagesFetchedExactly ==
    \A s \in Slots :
        LET g == gen[s]
            obj == pagination[s]
            n == obj.itemsPerPage
            last == Max(obj.pageNum, CeilDiv(g.log[1].total, n))
        IN  (obj /= NoPagination /\ n >= 1) =>
              /\ g.pc \notin {"NoGenerator", "Initial"} =>
                    \/ g.pc = "FetchingPage" /\ g.log = <<>> /\ g.pageNum = obj.pageNum
                    \/ g.log /= <<>> /\ g.log[1].req.pageNum = obj.pageNum
              /\ (checkAndRaise(obj.pageNum, n) /\ g.log /= <<>> /\ ConstantTotal(g)) =>
                    /\ PagesFetched(g) \subseteq obj.pageNum..last
                    /\ g.pc = "Exhausted" => PagesFetched(g) = obj.pageNum..last

\* Page 2 asked for although the one item of the collection is on page 1.
C19_Witness ==
    /\ pagination[1] /= NoPagination
    /\ pagination[1].pageNum = 2 /\ pagination[1].itemsPerPage = 1
    /\ gen[1].pc = "Exhausted" /\ ConstantTotal(gen[1])
    /\ Len(gen[1].log) = 1 /\ gen[1].log[1].total = 1 /\ gen[1].log[1].req.pageNum = 2

\* --------------------------------------------------------------- C20
\* C20: advancing a traversal never changes the pagination object's stored
\* starting page number, itemsPerPage or fetch binding; the running page
\* counter and the observed total are the generator's.
C20_ObjectUnchanged ==
    [][\A s \in Slots : pagination[s] /= NoPagination => pagination'[s] = pagination[s]]_vars

C20_Witness ==
    /\ pagination[1] /= NoPagination /\ pagination[1].pageNum = 1
    /\ gen[1].pc = "Exhausted" /\ gen[1].pulledAfterEnd
    /\ gen[1].pageNum = 3 /\ gen[1].total = 2

\* --------------------------------------------------------------- C15
\* C15: acknowledging an alert forever makes exactly one transport call, a
\* PATCH of the alert, whose acknowledgedUntil is the call time moved 100
\* calendar years on (the same month, day, hour, minute and second; the 29th
\* of February becomes the 28th when the year reached has none), written
\* with the UTC offset and without its fraction of a second, cut off and not
\* rounded.
C15_ForeverIsHundredYears ==
    lastOp.op = "acknowledge_an_alert_forever" =>
        LET alert == lastOp.args[1]
            now == lastOp.args[3]
            sent == lastOp.calls[1].body.acknowledgedUntil
        IN  /\ Len(lastOp.calls) = 1
            /\ lastOp.calls[1].method = "PATCH"
            /\ lastOp.calls[1].uri = <<"Acknowledge an Alert", alert>>
            /\ sent.year = now.year + 100
            /\ sent.month = now.month
            /\ sent.day = (IF now.month = 2 /\ now.day = 29 /\ ~IsLeap(now.year + 100)
                              THEN 28 ELSE now.day)
            /\ sent.hour = now.hour /\ sent.minute = now.minute /\ sent.second = now.second
            /\ sent.offset = "+00:00"

\* Called in the last microsecond of a second, on a 29th of February.
C15_Witness ==
    /\ lastOp.op = "acknowledge_an_alert_forever"
    /\ lastOp.args[3] = DateTime(2024, 2, 29, 23, 59, 59, 999999)
    /\ lastOp.calls[1].body.acknowledgedUntil.year = 2124
    /\ lastOp.calls[1].body.acknowledgedUntil.day = 29
    /\ lastOp.calls[1].body.acknowledgedUntil.second = 59
    /\ lastOp.result.kind = "return"

\* --------------------------------------------------------------- C18
\* The traversal is under way.
Running(g) == g.pc \in {"Initial", "FetchingPage", "EmittingResults"}

\* Every total the traversal has seen is within the bound MaxTotal.
TotalsBounded(g) == \A i \in 1..Len(g.log) : g.log[i].total <= MaxTotal

\* C18: with itemsPerPage >= 1, finite pages and every totalCount within a
\* fixed bound, a consumer that keeps pulling drives the traversal to
\* Exhausted or Failed, after a number of fetches and of items the bound
\* fixes; against totals without a bound the traversal is never Exhausted,
\* and goes on for as long as pages are asked for.
C18_Terminates ==
    \A s \in SoloSlots :
        /\ Running(gen[s]) ~> (gen[s].pc \in Terminal \/ ~TotalsBounded(gen[s]))
        /\ [](LET g == gen[s]
                  obj == pagination[s]
                  most == Max(1, CeilDiv(MaxTotal, obj.itemsPerPage) - obj.pageNum + 1)
              IN  (obj /= NoPagination /\ obj.itemsPerPage >= 1) =>
                     /\ TotalsBounded(g) => /\ Len(g.log) <= most
                                            /\ Len(g.yielded) <= most * MaxResults
                     /\ Beyond(g) => g.pc /= "Exhausted")

\* Both halves: a traversal that ended under bounded totals, and then one
\* that has been given MaxPages pages and is asking for the next.
C18_Witness ==
    /\ gen[1].prevEnd = "Exhausted"
    /\ gen[1].pc = "FetchingPage" /\ Beyond(gen[1])
    /\ gen[1].pageNum = MaxPages + 1


====
